---- MODULE Spec2Model ----
(***************************************************************************)
(* Adaptive cluster expansion of src/solvers.py (class ClusterExpansion):  *)
(* subsets, clusterID, S, Sindependent, deltaS ("Algorithm 1") and solve   *)
(* ("Algorithm 2").                                                        *)
(*                                                                         *)
(* Abstractions.  The entropies and interaction matrices that S,           *)
(* Sindependent and SmeanField return are kept as atoms, and every value   *)
(* the code derives from them (it only adds and subtracts them) as a       *)
(* formal integer combination of atoms: an equality of two combinations    *)
(* holds for every co-occurrence matrix, with exact arithmetic in place of *)
(* floating point.  solve compares a contribution with the threshold, so   *)
(* it needs numbers: the entropy the analytic solver of meanFieldIsing     *)
(* gives for an index set is drawn when solve first needs it and kept in   *)
(* solved, so that every later use sees the same number.                   *)
(***************************************************************************)
EXTENDS Integers, Sequences, FiniteSets, TLC

\* ------------------------------------------------------------------ bounds
MaxN == 3        \* number of variables N ranges over 1..MaxN
MaxLen == 3      \* length of the lists given to subsets
MaxEvals == 2    \* evaluations of func in one RegularizedMeanField.solve
MaxIter == 3     \* the maxiter argument of MCH.solve ranges over 0..MaxIter

\* the numbers the data sets are drawn from
SolverEntropies == {0, 1}   \* entropy of the fit of two or more variables
FreqEntropies == {1}        \* binary entropy of a single frequency
MeanFieldOffsets == {1}     \* independent minus mean-field entropy, per variable
Thresholds == {-1, 0, 1}    \* the threshold argument of solve
IndependentEntropies == {1, 2}  \* binary entropies in the independent data
PriorLmbdas == {0, 1}       \* the priorLmbda argument of RegularizedMeanField
FuncValues == {0, 1, 2}     \* the values in the funcList of bracket1d

VARIABLES
    N,              \* len(coocMat): number of variables
    H,              \* H[i]: binary entropy of the frequency coocMat[i,i]
    mfOff,          \* offset of the mean-field reference entropy
    coocShape,      \* "symmetric", "asymmetric" or "nonsquare": the coocMat
    extValidates,   \* the external solver rejects a malformed block
    solved,         \* index set -> entropy the analytic solver returns for it
    deltaSdict,     \* memo: clusterID -> marginal entropy contribution
    deltaJdict,     \* memo: clusterID -> marginal interaction contribution
    pc,             \* position of the current solve call
    threshold,      \* solve argument
    independentRef, \* solve argument
    meanFieldRef,   \* solve argument
    size,           \* solve local: size of the newest complete generation
    clusters,       \* solve local: clusters[k] is the list of clusters of size k
    ent,            \* solve local: assembled entropy
    J,              \* solve local: assembled interaction matrix
    coocBuilt,      \* line 1140 of the current solve call has been executed
    evaluated,      \* candidates solve has given to deltaS in this call
    iters,          \* while-loop iterations completed in this call
    hist,           \* results of the earlier solve calls
    maxClusterSize, \* cap the caller asked solve for (0: none)
    verbose,        \* solve argument
    veryVerbose,    \* solve argument
    printed,        \* lines the current solve call has printed
    stored,         \* identities the current solve call stored, in order
    invoked,        \* identities it invoked S for, in order
    last,           \* record of the last top-level deltaS call
    ncalls,         \* top-level deltaS calls made
    subIn,          \* arguments of the subsets call
    subOut,         \* what the subsets call produced
    rmf,            \* the RegularizedMeanField.solve call: arguments, progress
    mch,            \* the MCH.solve call: arguments, locals, progress
    brIn,           \* arguments of the bracket1d call
    brOut           \* what the bracket1d call produced

vars == <<N, H, mfOff, coocShape, extValidates, solved, deltaSdict, deltaJdict, pc, threshold,
          independentRef, meanFieldRef, size, clusters, ent, J, coocBuilt,
          evaluated, iters, hist, maxClusterSize, verbose, veryVerbose,
          printed, stored, invoked, last, ncalls, subIn, subOut, rmf, mch,
          brIn, brOut>>

dataVars == <<N, H, mfOff, coocShape, extValidates>>
solveVars == <<pc, threshold, independentRef, meanFieldRef, size, clusters,
               ent, J, coocBuilt, evaluated, iters, hist, maxClusterSize,
               verbose, veryVerbose, printed, stored, invoked>>
callVars == <<last, ncalls>>
subVars == <<subIn, subOut>>
moreVars == <<mch, brIn, brOut>>

\* ---------------------------------------------------------------- helpers
ToSet(s) == { s[k] : k \in DOMAIN s }

Abs(x) == IF x < 0 THEN -x ELSE x

\* the empty dictionary
Empty == [x \in {} |-> 0]

\* list membership (Python's "x in list")
InList(x, l) == \E k \in DOMAIN l : l[k] = x

RECURSIVE Insert(_, _)
Insert(x, s) ==
    IF s = <<>> THEN <<x>>
    ELSE IF x <= Head(s) THEN <<x>> \o s
    ELSE <<Head(s)>> \o Insert(x, Tail(s))

\* np.sort of a list of indices
RECURSIVE npSort(_)
npSort(s) == IF s = <<>> THEN <<>> ELSE Insert(Head(s), npSort(Tail(s)))

\* the sorted list of the elements of a finite set of indices
RECURSIVE SortedOf(_)
SortedOf(A) ==
    IF A = {} THEN <<>>
    ELSE LET m == CHOOSE x \in A : \A y \in A : x <= y
         IN  <<m>> \o SortedOf(A \ {m})

\* all lists over A of length at most n
ListsUpTo(A, n) == UNION { [1..k -> A] : k \in 0..n }

\* sum of f over the finite set A
RECURSIVE SumOver(_, _)
SumOver(A, f) ==
    IF A = {} THEN 0
    ELSE LET a == CHOOSE x \in A : TRUE
         IN  f[a] + SumOver(A \ {a}, f)

\* ------------------------------------------------------- clusterID, subsets
\* variant: the identity is the list as given
clusterID_asGiven(cluster) == cluster

\* lines 1072-1073: tuple(np.sort(cluster))
clusterID(cluster) == npSort(cluster)

\* len(set) != len(np.unique(set))
HasRepeat(set) == Len(set) # Cardinality(ToSet(set))

\* the body of subsets below the duplicate test; rest is set without the
\* first occurrence of its first element
RECURSIVE subsetsRec(_, _)
subsetsRec(set, sz) ==
    IF sz = Len(set) THEN <<set>>
    ELSE IF sz > Len(set) THEN <<>>
    ELSE IF sz <= 0 THEN <<>>
    ELSE IF sz = 1 THEN [k \in 1..Len(set) |-> <<set[k]>>]
    ELSE LET s == Head(set)
             rest == Tail(set)
             subrest1 == subsetsRec(rest, sz)
             subrest2 == subsetsRec(rest, sz - 1)
         IN  subrest1 \o [k \in 1..Len(subrest2) |-> Append(subrest2[k], s)]

\* variant: the duplicate test placed after the early returns on the size
subsets_lateTest(set, sz) ==
    IF sz = Len(set) THEN [err |-> FALSE, val |-> <<set>>]
    ELSE IF sz > Len(set) \/ sz <= 0 THEN [err |-> FALSE, val |-> <<>>]
    ELSE IF HasRepeat(set) THEN [err |-> TRUE, val |-> <<>>]
    ELSE [err |-> FALSE, val |-> subsetsRec(set, sz)]

\* subsets(set,size): raises on a repeated index, else the list of subsets
subsets(set, sz) ==
    IF HasRepeat(set) THEN [err |-> TRUE, val |-> <<>>]
    ELSE [err |-> FALSE, val |-> subsetsRec(set, sz)]

\* ------------------------------------------------------ formal combinations
Indices == 0..(MaxN - 1)

\* what the collaborators return for index set c:
\*   <<"H",{i}>>, <<"h",{i}>>  binary entropy of the frequency of variable i
\*                             and its field -log(p/(1-p)) on the diagonal
\*   <<"S",c>>, <<"fit",c>>    entropy and interaction matrix of the pairwise
\*                             model fitted to the co-occurrence block of c
\*   <<"mfS",c>>, <<"mf",c>>   mean-field reference entropy and matrix of c
Atoms == {"H", "h", "S", "fit", "mfS", "mf"} \X (SUBSET Indices \ {{}})

\* a value: the atoms with a non-zero coefficient and their coefficients
Coef(x, a) == IF a \in DOMAIN x THEN x[a] ELSE 0
LinZero == [a \in {} |-> 0]
Unit(a) == [b \in {a} |-> 1]
LinAdd(x, y) ==
    [a \in { b \in DOMAIN x \cup DOMAIN y : Coef(x, b) + Coef(y, b) # 0 } |->
        Coef(x, a) + Coef(y, a)]
LinSub(x, y) ==
    [a \in { b \in DOMAIN x \cup DOMAIN y : Coef(x, b) - Coef(y, b) # 0 } |->
        Coef(x, a) - Coef(y, a)]

\* sum over the list l of the atoms <<tag,{l[k]}>>
RECURSIVE SingleSum(_, _)
SingleSum(tag, l) ==
    IF l = <<>> THEN LinZero
    ELSE LinAdd(Unit(<<tag, {Head(l)}>>), SingleSum(tag, Tail(l)))

\* ------------------------------------------------------------ collaborators
\* meanFieldIsing.findJmatrixAnalytic_CoocMat: the interaction matrix fitted
\* to the block of index set c; for one variable the fit is its field
findJmatrixAnalytic(c) ==
    IF Cardinality(c) = 1 THEN Unit(<<"h", c>>) ELSE Unit(<<"fit", c>>)

\* meanFieldIsing.analyticEntropy of that fit; for one variable it is the
\* binary entropy of the frequency
analyticEntropy(c) ==
    IF Cardinality(c) = 1 THEN Unit(<<"H", c>>) ELSE Unit(<<"S", c>>)

\* variant: the empty cluster is not rejected
S_noEmptyTest(cluster, useAnalyticResults) ==
    [err |-> FALSE,
     ent |-> analyticEntropy(ToSet(cluster)),
     J |-> findJmatrixAnalytic(ToSet(cluster)),
     branch |-> "numeric"]

\* S(cluster,coocMat,...): [err, ent, J, branch].  Whatever the branch, J is
\* the fit to the block of the cluster and ent its analytic entropy.
S(cluster, useAnalyticResults) ==
    IF Len(cluster) = 0
    THEN [err |-> TRUE, ent |-> LinZero, J |-> LinZero, branch |-> "raise"]
    ELSE [err |-> FALSE,
          ent |-> analyticEntropy(ToSet(cluster)),
          J |-> findJmatrixAnalytic(ToSet(cluster)),
          branch |-> IF Len(cluster) = 1 /\ useAnalyticResults THEN "closed1"
                     ELSE IF Len(cluster) = 2 /\ useAnalyticResults THEN "closed2"
                     ELSE "numeric"]

\* variant: the reference entropy is left at 0
Sindependent_noEntropy(cluster) ==
    [ent |-> LinZero, J |-> SingleSum("h", cluster)]

\* Sindependent(cluster,coocMat): sum of the single-variable entropies and
\* the diagonal matrix of the single-variable fields
Sindependent(cluster) ==
    [ent |-> SingleSum("H", cluster), J |-> SingleSum("h", cluster)]

\* SmeanField(cluster,coocMat,...): the mean-field reference
SmeanField(cluster) ==
    [ent |-> Unit(<<"mfS", ToSet(cluster)>>), J |-> Unit(<<"mf", ToSet(cluster)>>)]

\* the number an entropy atom stands for on the data set (h, off, data)
AtomValue(a, h, off, data) ==
    IF a[1] = "H" THEN h[CHOOSE i \in a[2] : TRUE]
    ELSE IF a[1] = "S" THEN data[a[2]]
    ELSE SumOver(a[2], h) - off * Cardinality(a[2])

\* the number an entropy (a combination of entropy atoms) stands for
RECURSIVE ValueOver(_, _, _, _, _)
ValueOver(A, x, h, off, data) ==
    IF A = {} THEN 0
    ELSE LET a == CHOOSE b \in A : TRUE
         IN  x[a] * AtomValue(a, h, off, data) + ValueOver(A \ {a}, x, h, off, data)

Value(x, h, off, data) == ValueOver(DOMAIN x, x, h, off, data)

\* ------------------------------------------------------ deltaS, Algorithm 1
\* st: the two dictionaries the call tree shares, the verbose flag every
\* call of the tree is given (True by default, line 1012), and its
\* instrumentation: nS and nRef count the invocations of S and of the
\* reference, log lists the identities in the order they were stored, calls
\* the identities S was invoked for, branches holds the cluster sizes S was
\* invoked for with the branch it took, out counts the lines printed
NewSt(Sd, Jd) ==
    [Sd |-> Sd, Jd |-> Jd, nS |-> 0, nRef |-> 0, log |-> <<>>,
     calls |-> <<>>, branches |-> {}, verbose |-> TRUE, out |-> 0]

Raised(st) == [err |-> TRUE, dS |-> LinZero, dJ |-> LinZero, st |-> st]

\* variant: only both flags true is rejected, as at line 1145 of solve
BadFlags_bothOnly(indRef, mfRef) == indRef /\ mfRef

\* lines 1022-1023: both reference flags, or neither
BadFlags(indRef, mfRef) == (indRef /\ mfRef) \/ ~(indRef \/ mfRef)

RECURSIVE deltaS(_, _, _, _)
RECURSIVE SubclusterLoop(_, _, _, _)
RECURSIVE SizeLoop(_, _, _, _, _)

\* variant: only the first sub-cluster of each size is evaluated
SubclusterLoop_first(subclusters, acc, mfRef, indRef) ==
    IF acc.err \/ subclusters = <<>> THEN acc
    ELSE LET r == deltaS(Head(subclusters), acc.st, mfRef, indRef)
         IN  IF r.err THEN Raised(r.st)
             ELSE [err |-> FALSE,
                   dS |-> LinSub(acc.dS, r.dS),
                   dJ |-> LinSub(acc.dJ, r.dJ),
                   st |-> r.st]

\* lines 1056-1065: the sub-clusters of one size, in list order
SubclusterLoop(subclusters, acc, mfRef, indRef) ==
    IF acc.err \/ subclusters = <<>> THEN acc
    ELSE LET r == deltaS(Head(subclusters), acc.st, mfRef, indRef)
         IN  IF r.err THEN Raised(r.st)
             ELSE SubclusterLoop(Tail(subclusters),
                                 [err |-> FALSE,
                                  dS |-> LinSub(acc.dS, r.dS),
                                  dJ |-> LinSub(acc.dJ, r.dJ),
                                  st |-> r.st],
                                 mfRef, indRef)

\* variant: the sizes stop at 2, range(len(cluster)-1,1,-1)
SizeLoop_skipSingles(cluster, sz, acc, mfRef, indRef) ==
    IF acc.err \/ sz < 2 THEN acc
    ELSE LET subclusters == subsets(cluster, sz)
         IN  IF subclusters.err THEN Raised(acc.st)
             ELSE SizeLoop(cluster, sz - 1,
                           SubclusterLoop(subclusters.val, acc, mfRef, indRef),
                           mfRef, indRef)

\* lines 1054-1055: for size in range(len(cluster)-1,0,-1)
SizeLoop(cluster, sz, acc, mfRef, indRef) ==
    IF acc.err \/ sz < 1 THEN acc
    ELSE LET subclusters == subsets(cluster, sz)
         IN  IF subclusters.err THEN Raised(acc.st)
             ELSE SizeLoop(cluster, sz - 1,
                           SubclusterLoop(subclusters.val, acc, mfRef, indRef),
                           mfRef, indRef)

\* variant: the reference is not subtracted
Start_noRef(cluster, st, full, mfRef, indRef) ==
    [err |-> FALSE, dS |-> full.ent, dJ |-> full.J,
     st |-> [st EXCEPT !.nS = @ + 1, !.nRef = @ + 1,
                       !.calls = Append(@, clusterID(cluster)),
                       !.branches = @ \cup {<<Len(cluster), full.branch>>}]]

\* lines 1035-1051: the full entropy and matrix of the cluster minus the
\* reference; the running value the sub-cluster loops go on from
Start(cluster, st, full, mfRef, indRef) ==
    LET ref == IF indRef THEN Sindependent(cluster)
               ELSE IF mfRef THEN SmeanField(cluster)
               ELSE [ent |-> LinZero, J |-> LinZero]
    IN  [err |-> FALSE,
         dS |-> LinSub(full.ent, ref.ent),
         dJ |-> LinSub(full.J, ref.J),
         st |-> [st EXCEPT !.nS = @ + 1,
                           !.nRef = IF indRef \/ mfRef THEN @ + 1 ELSE @,
                           !.calls = Append(@, clusterID(cluster)),
                           !.branches = @ \cup {<<Len(cluster), full.branch>>}]]

\* variant: only the entropy dictionary is written
Store_entropyOnly(cID, acc) ==
    IF acc.err THEN acc
    ELSE [acc EXCEPT !.st.Sd = (cID :> acc.dS) @@ @,
                     !.st.log = Append(@, cID)]

\* lines 1067-1070: store the result under the identity and return it
Store(cID, acc) ==
    IF acc.err THEN acc
    ELSE [acc EXCEPT !.st.Sd = (cID :> acc.dS) @@ @,
                     !.st.Jd = (cID :> acc.dJ) @@ @,
                     !.st.log = Append(@, cID)]

\* variant: the memo is consulted for two or more indices only
Memoized_pairsOnly(cID, Sd) == Len(cID) >= 2 /\ cID \in DOMAIN Sd

\* variant: the memo is never consulted
Memoized_never(cID, Sd) == FALSE

\* line 1029: the memo test
Memoized(cID, Sd) == cID \in DOMAIN Sd

\* lines 1032-1033: after a memo miss, print if verbose
Announce(st) == [st EXCEPT !.out = IF st.verbose THEN @ + 1 ELSE @]

\* deltaS(cluster,coocMat,deltaSdict,deltaJdict,...): [err, dS, dJ, st]
deltaS(cluster, st, mfRef, indRef) ==
    IF BadFlags(indRef, mfRef) THEN Raised(st)
    ELSE LET cID == clusterID(cluster) IN
    IF Memoized(cID, st.Sd)
    THEN IF cID \in DOMAIN st.Jd
         THEN [err |-> FALSE, dS |-> st.Sd[cID], dJ |-> st.Jd[cID], st |-> st]
         ELSE Raised(st)
    ELSE LET full == S(cluster, FALSE) IN
    IF full.err THEN Raised([Announce(st) EXCEPT !.nS = @ + 1,
                                                 !.calls = Append(@, cID)])
    ELSE Store(cID, SizeLoop(cluster, Len(cluster) - 1,
                             Start(cluster, Announce(st), full, mfRef, indRef),
                             mfRef, indRef))

\* ------------------------------------------------------- solve, Algorithm 2

\* range(N)
Range(n) == [k \in 1..n |-> k - 1]

\* the index sets of size >= 2 inside index set c
Inside(c) == { d \in SUBSET c : Cardinality(d) >= 2 }

\* variant: the retention test is abs(deltaSgammaU) >= T
PairBody_atLeast(gen, i, j, sz, T, acc, mfRef, indRef, h, off, data) ==
    LET gamma1 == gen[i]
        gamma2 == gen[j]
        gammaI == ToSet(gamma1) \cap ToSet(gamma2)
        gammaU == SortedOf(ToSet(gamma1) \cup ToSet(gamma2))
    IN  IF Cardinality(gammaI) # sz - 1 THEN acc
        ELSE LET r == deltaS(gammaU, acc.st, mfRef, indRef)
                 deltaSgammaU == Value(r.dS, h, off, data)
             IN  IF r.err THEN [acc EXCEPT !.err = TRUE, !.st = r.st]
                 ELSE [err |-> FALSE,
                       next |-> IF Abs(deltaSgammaU) >= T
                                   /\ ~InList(gammaU, acc.next)
                                THEN Append(acc.next, gammaU)
                                ELSE acc.next,
                       st |-> r.st,
                       evals |-> acc.evals \cup
                                 {[c |-> gammaU, k |-> sz + 1,
                                   dS |-> deltaSgammaU,
                                   g1 |-> gamma1, g2 |-> gamma2]}]

\* variant: the retention test is abs(deltaSgammaU) <= T
PairBody_atMost(gen, i, j, sz, T, acc, mfRef, indRef, h, off, data) ==
    LET gamma1 == gen[i]
        gamma2 == gen[j]
        gammaI == ToSet(gamma1) \cap ToSet(gamma2)
        gammaU == SortedOf(ToSet(gamma1) \cup ToSet(gamma2))
    IN  IF Cardinality(gammaI) # sz - 1 THEN acc
        ELSE LET r == deltaS(gammaU, acc.st, mfRef, indRef)
                 deltaSgammaU == Value(r.dS, h, off, data)
             IN  IF r.err THEN [acc EXCEPT !.err = TRUE, !.st = r.st]
                 ELSE [err |-> FALSE,
                       next |-> IF Abs(deltaSgammaU) <= T
                                   /\ ~InList(gammaU, acc.next)
                                THEN Append(acc.next, gammaU)
                                ELSE acc.next,
                       st |-> r.st,
                       evals |-> acc.evals \cup
                                 {[c |-> gammaU, k |-> sz + 1,
                                   dS |-> deltaSgammaU,
                                   g1 |-> gamma1, g2 |-> gamma2]}]

\* variant: a retained union is appended whether or not it is listed
PairBody_noDedup(gen, i, j, sz, T, acc, mfRef, indRef, h, off, data) ==
    LET gamma1 == gen[i]
        gamma2 == gen[j]
        gammaI == ToSet(gamma1) \cap ToSet(gamma2)
        gammaU == SortedOf(ToSet(gamma1) \cup ToSet(gamma2))
    IN  IF Cardinality(gammaI) # sz - 1 THEN acc
        ELSE LET r == deltaS(gammaU, acc.st, mfRef, indRef)
                 deltaSgammaU == Value(r.dS, h, off, data)
             IN  IF r.err THEN [acc EXCEPT !.err = TRUE, !.st = r.st]
                 ELSE [err |-> FALSE,
                       next |-> IF Abs(deltaSgammaU) > T
                                THEN Append(acc.next, gammaU)
                                ELSE acc.next,
                       st |-> r.st,
                       evals |-> acc.evals \cup
                                 {[c |-> gammaU, k |-> sz + 1,
                                   dS |-> deltaSgammaU,
                                   g1 |-> gamma1, g2 |-> gamma2]}]

\* variant: the merge test of line 1171 is left out
PairBody_noMergeTest(gen, i, j, sz, T, acc, mfRef, indRef, h, off, data) ==
    LET gamma1 == gen[i]
        gamma2 == gen[j]
        gammaU == SortedOf(ToSet(gamma1) \cup ToSet(gamma2))
        r == deltaS(gammaU, acc.st, mfRef, indRef)
        deltaSgammaU == Value(r.dS, h, off, data)
    IN  IF r.err THEN [acc EXCEPT !.err = TRUE, !.st = r.st]
        ELSE [err |-> FALSE,
              next |-> IF Abs(deltaSgammaU) > T /\ ~InList(gammaU, acc.next)
                       THEN Append(acc.next, gammaU)
                       ELSE acc.next,
              st |-> r.st,
              evals |-> acc.evals \cup
                        {[c |-> gammaU, k |-> sz + 1, dS |-> deltaSgammaU,
                          g1 |-> gamma1, g2 |-> gamma2]}]

\* lines 1166-1182: the body of the double loop for the pair (i,j) of
\* clusters[size]; acc = [err, next, st, evals], next being clusters[size+1]
\* and evals the candidates deltaS was evaluated for: the union c, its size
\* k, the value dS and the two clusters g1, g2 of clusters[size] it joins
PairBody(gen, i, j, sz, T, acc, mfRef, indRef, h, off, data) ==
    LET gamma1 == gen[i]
        gamma2 == gen[j]
        gammaI == ToSet(gamma1) \cap ToSet(gamma2)
        gammaU == SortedOf(ToSet(gamma1) \cup ToSet(gamma2))
    IN  IF Cardinality(gammaI) # sz - 1 THEN acc
        ELSE LET r == deltaS(gammaU, acc.st, mfRef, indRef)
                 deltaSgammaU == Value(r.dS, h, off, data)
             IN  IF r.err THEN [acc EXCEPT !.err = TRUE, !.st = r.st]
                 ELSE [err |-> FALSE,
                       next |-> IF Abs(deltaSgammaU) > T
                                   /\ ~InList(gammaU, acc.next)
                                THEN Append(acc.next, gammaU)
                                ELSE acc.next,
                       st |-> r.st,
                       evals |-> acc.evals \cup
                                 {[c |-> gammaU, k |-> sz + 1,
                                   dS |-> deltaSgammaU,
                                   g1 |-> gamma1, g2 |-> gamma2]}]

\* lines 1164-1165: for i in range(numClusters): for j in range(i+1,numClusters)
RECURSIVE PairLoop(_, _, _, _, _, _, _, _, _, _, _)
PairLoop(gen, i, j, sz, T, acc, mfRef, indRef, h, off, data) ==
    IF acc.err \/ i > Len(gen) THEN acc
    ELSE IF j > Len(gen)
         THEN PairLoop(gen, i + 1, i + 2, sz, T, acc, mfRef, indRef,
                      h, off, data)
         ELSE PairLoop(gen, i, j + 1, sz, T,
                       PairBody(gen, i, j, sz, T, acc, mfRef, indRef,
                                h, off, data),
                       mfRef, indRef, h, off, data)

\* the unions that pass the merge test of line 1171
Candidates(gen, sz) ==
    { u \in SUBSET (0..(N - 1)) : \E i, j \in DOMAIN gen :
         /\ i < j
         /\ u = ToSet(gen[i]) \cup ToSet(gen[j])
         /\ Cardinality(ToSet(gen[i]) \cap ToSet(gen[j])) = sz - 1 }

\* lines 1195-1199: add the memoized contribution of every listed cluster;
\* a missing key raises KeyError
RECURSIVE AssembleLoop(_, _, _, _)
AssembleLoop(l, acc, Sd, Jd) ==
    IF acc.err \/ l = <<>> THEN acc
    ELSE LET cID == clusterID(Head(l))
         IN  IF cID \notin DOMAIN Sd \/ cID \notin DOMAIN Jd
             THEN [acc EXCEPT !.err = TRUE]
             ELSE AssembleLoop(Tail(l),
                               [err |-> FALSE,
                                ent |-> LinAdd(acc.ent, Sd[cID]),
                                J |-> LinAdd(acc.J, Jd[cID])],
                               Sd, Jd)

RECURSIVE Flatten(_)

\* variant: the generation of the single indices is left out
Flatten_noSingles(cl) ==
    IF cl = <<>> THEN <<>>
    ELSE IF Head(cl) # <<>> /\ Len(Head(cl)[1]) = 1 THEN Flatten(Tail(cl))
    ELSE Head(cl) \o Flatten(Tail(cl))

\* lines 1195-1196: all clusters of all generations, generation by generation
Flatten(cl) == IF cl = <<>> THEN <<>> ELSE Head(cl) \o Flatten(Tail(cl))

\* lines 1185-1192: the reference the assembly starts from
Reference(indRef, mfRef, n) ==
    IF indRef THEN Sindependent(Range(n))
    ELSE IF mfRef THEN SmeanField(Range(n))
    ELSE [ent |-> LinZero, J |-> LinZero]

\* what a finished call returned (return_all) or how it ended, and what it
\* was called with
Summary == [T |-> threshold, indRef |-> independentRef, mfRef |-> meanFieldRef,
            verbose |-> verbose, veryVerbose |-> veryVerbose,
            clusters |-> clusters, pc |-> pc, ent |-> ent, J |-> J,
            Sd |-> deltaSdict, Jd |-> deltaJdict, evaluated |-> evaluated,
            printed |-> printed, stored |-> stored, invoked |-> invoked]

\* variant: one dictionary shared by all calls, as a mutable default
\* argument would be
NewDict_shared(previous) == previous

\* lines 1142-1143: no dictionary is passed, so the call makes an empty one;
\* previous is what the call before left behind
NewDict(previous) == Empty

\* lines 1139-1156: entry of solve up to the first generation
SolveEntry(T, indRef, mfRef, verb, vverb) ==
    /\ hist' = IF pc = "idle" THEN hist ELSE hist \cup {Summary}
    /\ verbose' = verb
    /\ veryVerbose' = vverb
    /\ printed' = 0
    /\ stored' = <<>>
    /\ invoked' = <<>>
    /\ threshold' = T
    /\ independentRef' = indRef
    /\ meanFieldRef' = mfRef
    /\ coocBuilt' = TRUE
    /\ deltaSdict' = NewDict(deltaSdict)
    /\ deltaJdict' = NewDict(deltaJdict)
    /\ evaluated' = {}
    /\ iters' = 0
    /\ ent' = LinZero
    /\ J' = LinZero
    /\ IF indRef /\ mfRef
       THEN /\ pc' = "raisedFlags"
            /\ clusters' = <<>>
            /\ size' = 0
       ELSE /\ pc' = "loop"
            /\ clusters' = << [k \in 1..N |-> <<k - 1>>] >>
            /\ size' = 1
    /\ UNCHANGED <<dataVars, solved, maxClusterSize, callVars, subVars, rmf,
                   moreVars>>

\* solve(X,threshold,...): the first call on this data, verbose and
\* veryVerbose at their defaults True and False
solve(T, indRef, mfRef) ==
    /\ pc = "idle"
    /\ SolveEntry(T, indRef, mfRef, TRUE, FALSE)

\* lines 1106-1110: the parameters of solve.  There is no parameter for a
\* maximum cluster size and no **kwargs, so a call that passes one raises
\* TypeError before the body of solve is entered
solveCapped(cap) ==
    /\ pc = "idle"
    /\ pc' = "raisedType"
    /\ maxClusterSize' = cap
    /\ UNCHANGED <<dataVars, solved, deltaSdict, deltaJdict, threshold,
                   independentRef, meanFieldRef, size, clusters, ent, J,
                   coocBuilt, evaluated, iters, hist, verbose, veryVerbose,
                   printed, stored, invoked, callVars, subVars, rmf, moreVars>>

Finished == {"done", "raisedFlags", "raisedDeltaS", "raisedKey"}

\* a second call of solve on the same data with the same reference flags, a
\* larger threshold and the default (fresh) dictionaries
solveAgain(T) ==
    /\ pc \in Finished
    /\ hist = {}
    /\ T > threshold
    /\ SolveEntry(T, independentRef, meanFieldRef, verbose, veryVerbose)

\* variant: the loop goes on only if verbose
LoopContinues_verbose == verbose /\ Len(clusters[size]) > 0

\* variant: while len(clusters[size]) > 1
LoopContinues_two == Len(clusters[size]) > 1

\* line 1158: while len(clusters[size]) > 0
LoopContinues == Len(clusters[size]) > 0

\* a second call of solve with the same arguments on the same data, except
\* that verbose and veryVerbose are both switched
solveOtherVerbosity ==
    /\ pc \in Finished
    /\ hist = {}
    /\ SolveEntry(threshold, independentRef, meanFieldRef, ~verbose,
                  ~veryVerbose)

\* lines 1158-1183: one iteration of the while loop
SolveLoop ==
    /\ pc = "loop"
    /\ LoopContinues
    /\ LET gen == clusters[size]
           needed == IF BadFlags(independentRef, meanFieldRef) THEN {}
                     ELSE (UNION { Inside(u) : u \in Candidates(gen, size) })
                          \ DOMAIN solved
       IN  \E f \in [needed -> SolverEntropies] :
             LET data == f @@ solved
                 acc0 == [err |-> FALSE, next |-> <<>>,
                          st |-> [NewSt(deltaSdict, deltaJdict)
                                    EXCEPT !.verbose = veryVerbose],
                          evals |-> {}]
             IN  \E res \in {PairLoop(gen, 1, 2, size, threshold, acc0,
                                       meanFieldRef, independentRef, H, mfOff,
                                       data)} :
                 /\ solved' = data
                 /\ deltaSdict' = res.st.Sd
                 /\ deltaJdict' = res.st.Jd
                 /\ clusters' = Append(clusters, res.next)
                 /\ evaluated' = evaluated \cup res.evals
                 /\ printed' = printed + (IF verbose THEN 1 ELSE 0)
                                        + res.st.out
                 /\ stored' = stored \o res.st.log
                 /\ invoked' = invoked \o res.st.calls
                 /\ IF res.err
                    THEN /\ pc' = "raisedDeltaS"
                         /\ UNCHANGED <<size, iters>>
                    ELSE /\ pc' = "loop"
                         /\ size' = size + 1
                         /\ iters' = iters + 1
    /\ UNCHANGED <<dataVars, threshold, independentRef, meanFieldRef, ent, J,
                   coocBuilt, hist, maxClusterSize, verbose, veryVerbose,
                   callVars, subVars, rmf, moreVars>>

\* lines 1185-1209: the loop has ended; assemble and return
SolveAssemble ==
    /\ pc = "loop"
    /\ ~LoopContinues
    /\ LET ref == Reference(independentRef, meanFieldRef, N)
       IN  \E res \in {AssembleLoop(Flatten(clusters),
                                     [err |-> FALSE, ent |-> ref.ent, J |-> ref.J],
                                     deltaSdict, deltaJdict)} :
           /\ ent' = res.ent
           /\ J' = res.J
           /\ pc' = IF res.err THEN "raisedKey" ELSE "done"
    /\ UNCHANGED <<dataVars, solved, deltaSdict, deltaJdict, threshold,
                   independentRef, meanFieldRef, size, clusters, coocBuilt,
                   evaluated, iters, hist, maxClusterSize, verbose,
                   veryVerbose, printed, stored, invoked, callVars, subVars,
                   rmf, moreVars>>

NoCall == [op |-> "none"]

\* no call of RegularizedMeanField.solve has been made
RMFidle == [pc |-> "idle"]

\* no call of MCH.solve has been made
MCHidle == [pc |-> "idle"]

\* neither MCH.solve nor bracket1d has been called
OthersIdle ==
    /\ mch = MCHidle
    /\ brIn = <<>>
    /\ brOut = NoCall

DataInit ==
    /\ N \in 1..MaxN
    /\ H \in [0..(N - 1) -> FreqEntropies]
    /\ mfOff \in MeanFieldOffsets
    /\ coocShape = "symmetric"
    /\ extValidates = FALSE
    /\ solved = Empty

SolveIdle ==
    /\ pc = "idle"
    /\ threshold = 0
    /\ independentRef = FALSE
    /\ meanFieldRef = FALSE
    /\ size = 0
    /\ clusters = <<>>
    /\ ent = LinZero
    /\ J = LinZero
    /\ coocBuilt = FALSE
    /\ evaluated = {}
    /\ iters = 0
    /\ hist = {}
    /\ maxClusterSize = 0
    /\ verbose = TRUE
    /\ veryVerbose = FALSE
    /\ printed = 0
    /\ stored = <<>>
    /\ invoked = <<>>

Init ==
    /\ DataInit
    /\ SolveIdle
    /\ deltaSdict = Empty
    /\ deltaJdict = Empty
    /\ last = NoCall
    /\ ncalls = 0
    /\ subIn = <<>>
    /\ subOut = NoCall
    /\ rmf = RMFidle
    /\ OthersIdle

Next ==
    \/ \E T \in Thresholds, indRef \in BOOLEAN, mfRef \in BOOLEAN :
          solve(T, indRef, mfRef)
    \/ \E cap \in 1..MaxN : solveCapped(cap)
    \/ SolveLoop
    \/ SolveAssemble

Spec == Init /\ [][Next]_vars

\* what the analytic solver returns on data whose pairwise co-occurrences are
\* the products of the marginals: the fitted model has no couplings and its
\* entropy is the sum of the binary entropies of the variables
IndependentData(n, h) == [c \in Inside(0..(n - 1)) |-> SumOver(c, h)]

\* solve on independent data, the binary entropies of the variables varying
InitIndependent ==
    /\ N \in 1..MaxN
    /\ H \in [0..(N - 1) -> IndependentEntropies]
    /\ mfOff \in MeanFieldOffsets
    /\ coocShape = "symmetric"
    /\ extValidates = FALSE
    /\ solved = IndependentData(N, H)
    /\ SolveIdle
    /\ deltaSdict = Empty
    /\ deltaJdict = Empty
    /\ last = NoCall
    /\ ncalls = 0
    /\ subIn = <<>>
    /\ subOut = NoCall
    /\ rmf = RMFidle
    /\ OthersIdle

SpecIndependent == InitIndependent /\ [][Next]_vars

\* the pairs of variables among n
PairsOf(n) == { c \in SUBSET (0..(n - 1)) : Cardinality(c) = 2 }

\* what the analytic solver returns on data in which the pairs in Z are
\* strongly correlated: entropy 0 for the fit of such a pair, 1 for the fit
\* of any other set of two or more variables
CorrelatedPairs(n, Z) == [c \in Inside(0..(n - 1)) |-> IF c \in Z THEN 0 ELSE 1]

\* solve on MaxN + 1 variables of which at most two pairs are strongly
\* correlated, so that two retained clusters can be disjoint
InitWide ==
    /\ N = MaxN + 1
    /\ H = [i \in 0..(N - 1) |-> 1]
    /\ mfOff \in MeanFieldOffsets
    /\ coocShape = "symmetric"
    /\ extValidates = FALSE
    /\ \E Z \in SUBSET PairsOf(N) :
          /\ Cardinality(Z) <= 2
          /\ solved = CorrelatedPairs(N, Z)
    /\ SolveIdle
    /\ deltaSdict = Empty
    /\ deltaJdict = Empty
    /\ last = NoCall
    /\ ncalls = 0
    /\ subIn = <<>>
    /\ subOut = NoCall
    /\ rmf = RMFidle
    /\ OthersIdle

SpecWide == InitWide /\ [][Next]_vars

\* two solve calls on the same data
NextRerun ==
    \/ Next
    \/ \E T \in Thresholds : solveAgain(T)

SpecRerun == Init /\ [][NextRerun]_vars

\* two solve calls that differ in verbose and veryVerbose only
NextVerbosity ==
    \/ Next
    \/ solveOtherVerbosity

SpecVerbosity == Init /\ [][NextVerbosity]_vars

\* ------------------------------------------- direct calls of deltaS, subsets
\* lists of distinct indices below n
ClusterArgs(n) ==
    { l \in ListsUpTo(0..(n - 1), n) : ~HasRepeat(l) }

\* deltaS, S and Sindependent do not examine the shape of coocMat.  What is
\* left is the external solver S hands the block of the cluster to (lines
\* 966-970), reached first for the cluster of the top-level call: a block of
\* one variable has nothing to reject, a larger block of a malformed matrix
\* is rejected if the solver validates its input
ExternalRejects(cluster, indRef, mfRef) ==
    /\ coocShape # "symmetric"
    /\ extValidates
    /\ ~BadFlags(indRef, mfRef)
    /\ ~Memoized(clusterID(cluster), deltaSdict)
    /\ Len(cluster) >= 2

\* a top-level call deltaS(cluster,coocMat,deltaSdict,deltaJdict,...): the
\* first call, or a second one with the dictionaries the first call filled
CallDeltaS(cluster, indRef, mfRef) ==
    /\ ncalls < 2
    /\ LET cID == clusterID(cluster)
           st == NewSt(deltaSdict, deltaJdict)
       IN  \E r \in {IF ExternalRejects(cluster, indRef, mfRef)
                     THEN Raised([st EXCEPT !.nS = 1])
                     ELSE deltaS(cluster, st, mfRef, indRef)} :
           /\ deltaSdict' = r.st.Sd
           /\ deltaJdict' = r.st.Jd
           /\ ncalls' = ncalls + 1
           /\ last' = [op |-> "deltaS", cID |-> cID,
                       sorted |-> (cluster = cID),
                       indRef |-> indRef, mfRef |-> mfRef,
                       hit |-> (cID \in DOMAIN deltaSdict),
                       err |-> r.err, dS |-> r.dS, dJ |-> r.dJ,
                       nS |-> r.st.nS, nRef |-> r.st.nRef, out |-> r.st.out,
                       branches |-> r.st.branches,
                       log |-> r.st.log]
    /\ UNCHANGED <<dataVars, solved, solveVars, subVars, rmf, moreVars>>

NextDeltaS ==
    \E cluster \in ClusterArgs(N), indRef \in BOOLEAN, mfRef \in BOOLEAN :
        CallDeltaS(cluster, indRef, mfRef)

SpecDeltaS == Init /\ [][NextDeltaS]_vars

\* deltaS called with a co-occurrence matrix that is not square or not
\* symmetric
InitMalformed ==
    /\ N \in 1..MaxN
    /\ H \in [0..(N - 1) -> FreqEntropies]
    /\ mfOff \in MeanFieldOffsets
    /\ coocShape \in {"asymmetric", "nonsquare"}
    /\ extValidates \in BOOLEAN
    /\ solved = Empty
    /\ SolveIdle
    /\ deltaSdict = Empty
    /\ deltaJdict = Empty
    /\ last = NoCall
    /\ ncalls = 0
    /\ subIn = <<>>
    /\ subOut = NoCall
    /\ rmf = RMFidle
    /\ OthersIdle

SpecMalformed == InitMalformed /\ [][NextDeltaS]_vars

\* a call subsets(set,size)
CallSubsets ==
    /\ subOut = NoCall
    /\ LET r == subsets(subIn[1], subIn[2])
       IN  subOut' = [op |-> "subsets", err |-> r.err, val |-> r.val]
    /\ UNCHANGED <<dataVars, solved, deltaSdict, deltaJdict, solveVars,
                   callVars, subIn, rmf, moreVars>>

InitSubsets ==
    /\ N = MaxN
    /\ H = [i \in 0..(MaxN - 1) |-> 1]
    /\ mfOff = 1
    /\ coocShape = "symmetric"
    /\ extValidates = FALSE
    /\ solved = Empty
    /\ SolveIdle
    /\ deltaSdict = Empty
    /\ deltaJdict = Empty
    /\ last = NoCall
    /\ ncalls = 0
    /\ subIn \in ListsUpTo(0..(MaxN - 1), MaxLen) \X ((-1)..(MaxLen + 1))
    /\ subOut = NoCall
    /\ rmf = RMFidle
    /\ OthersIdle

SpecSubsets == InitSubsets /\ [][CallSubsets]_vars

\* ------------------------------------------- RegularizedMeanField.solve
\* lines 1554-1595: from the entry of solve to the choice of the residual
\* weighting.  prior is priorLmbda; cov tells whether coocCov was passed
RMFsolve(prior, minInd, minCov, cov, chSeed, brack) ==
    /\ rmf = RMFidle
    /\ rmf' = [priorLmbda |-> prior,
               minimizeIndependent |-> minInd,
               minimizeCovariance |-> minCov,
               changeSeed |-> chSeed,
               bracket |-> brack,
               coocBuilt |-> TRUE,
               coocCov |-> IF cov THEN "given" ELSE "computed",
               coocStdevs |-> (prior = 0 /\ minInd),
               evals |-> 0,
               seeds |-> <<>>,
               samplings |-> 0,
               pc |-> IF prior # 0 THEN "raisedPrior"
                      ELSE IF minInd THEN "optimise"
                      ELSE IF minCov THEN "raisedCovariance"
                      ELSE "raisedCorrelated"]
    /\ UNCHANGED <<dataVars, solved, deltaSdict, deltaJdict, solveVars,
                   callVars, subVars, moreVars>>

\* lines 1602-1660: one evaluation of func by the grid or by
\* minimize_scalar.  samples(J) draws the next seed (seedGenerator(seed,1)
\* counts up from seed = 0, seedGenerator(seed,0) repeats it) and then, if
\* minimizeCovariance, reads empiricalFreqs, which is assigned only after
\* the raise of line 1583: NameError
RMFfunc ==
    /\ rmf.pc = "optimise"
    /\ rmf.evals < MaxEvals
    /\ rmf' = [rmf EXCEPT
                 !.evals = @ + 1,
                 !.seeds = Append(@, IF rmf.changeSeed THEN Len(@) ELSE 0),
                 !.samplings = IF rmf.minimizeCovariance THEN @ ELSE @ + 1,
                 !.pc = IF rmf.minimizeCovariance THEN "raisedName" ELSE @]
    /\ UNCHANGED <<dataVars, solved, deltaSdict, deltaJdict, solveVars,
                   callVars, subVars, moreVars>>

\* lines 1663-1683: the minimisation ends after at least one evaluation;
\* with a bracket, bracket1d raises if the minimum of the grid is at its
\* boundary (line 1698)
RMFreturn(atBoundary) ==
    /\ rmf.pc = "optimise"
    /\ rmf.evals >= 1
    /\ atBoundary => rmf.bracket
    /\ rmf' = [rmf EXCEPT !.pc = IF atBoundary THEN "raisedBoundary"
                                 ELSE "done"]
    /\ UNCHANGED <<dataVars, solved, deltaSdict, deltaJdict, solveVars,
                   callVars, subVars, moreVars>>

NextRMF ==
    \/ \E prior \in PriorLmbdas, minInd \in BOOLEAN, minCov \in BOOLEAN,
          cov \in BOOLEAN, chSeed \in BOOLEAN, brack \in BOOLEAN :
          RMFsolve(prior, minInd, minCov, cov, chSeed, brack)
    \/ RMFfunc
    \/ \E atBoundary \in BOOLEAN : RMFreturn(atBoundary)

SpecRMF == Init /\ [][NextRMF]_vars

\* ------------------------------------- RegularizedMeanField.bracket1d
\* np.argmin of a non-empty list: the first index of its least value
\* (counted from 1 here)
argmin(l) ==
    CHOOSE i \in DOMAIN l :
       /\ \A j \in DOMAIN l : l[i] <= l[j]
       /\ \A j \in 1..(i - 1) : l[j] > l[i]

\* lines 1686-1702: bracket1d(xList,funcList).  np.argmin raises on an empty
\* list; gridMinIndex is counted from 1 here
bracket1d(xList, funcList) ==
    IF funcList = <<>> THEN [err |-> TRUE, val |-> <<>>]
    ELSE LET gridMinIndex == argmin(funcList)
         IN  IF gridMinIndex = 1 \/ gridMinIndex = Len(xList)
             THEN [err |-> TRUE, val |-> <<>>]
             ELSE LET before == SubSeq(funcList, 1, gridMinIndex - 1)
                      after == SubSeq(funcList, gridMinIndex + 1,
                                      Len(funcList))
                  IN  [err |-> FALSE,
                       val |-> << xList[argmin(before)],
                                  xList[gridMinIndex],
                                  xList[gridMinIndex + argmin(after)] >>]

\* strictly increasing lists over 0..MaxLen of length n
Increasing(n) ==
    { x \in [1..n -> 0..MaxLen] : \A i \in 1..(n - 1) : x[i] < x[i + 1] }

\* a call bracket1d(xList,funcList)
CallBracket ==
    /\ brOut = NoCall
    /\ LET r == bracket1d(brIn[1], brIn[2])
       IN  brOut' = [op |-> "bracket1d", err |-> r.err, val |-> r.val]
    /\ UNCHANGED <<dataVars, solved, deltaSdict, deltaJdict, solveVars,
                   callVars, subVars, rmf, mch, brIn>>

\* xList strictly increasing, funcList of the same length
InitBracket ==
    /\ N = MaxN
    /\ H = [i \in 0..(MaxN - 1) |-> 1]
    /\ mfOff = 1
    /\ coocShape = "symmetric"
    /\ extValidates = FALSE
    /\ solved = Empty
    /\ SolveIdle
    /\ deltaSdict = Empty
    /\ deltaJdict = Empty
    /\ last = NoCall
    /\ ncalls = 0
    /\ subIn = <<>>
    /\ subOut = NoCall
    /\ rmf = RMFidle
    /\ mch = MCHidle
    /\ \E n \in 0..MaxLen :
          brIn \in Increasing(n) \X [1..n -> FuncValues]
    /\ brOut = NoCall

SpecBracket == InitBracket /\ [][CallBracket]_vars

\* ------------------------------------------------------------- MCH.solve
\* what disp can be: False, True or 'detailed'
Disps == {"off", "on", "detailed"}

\* lines 626-635: the lines one iteration prints before it tests for exit
IterationLines(disp) ==
    IF disp = "off" THEN 0 ELSE IF disp = "on" THEN 2 ELSE 4

\* lines 641-642: both tolerance tests on the latest row of errors
WithinTolerance(row) == row.normOk /\ row.allOk

\* variant: the iteration limit test is counter >= maxiter
OverMaxiter_atLeast(counter, maxiter) == counter >= maxiter

\* line 646: elif counter>maxiter
OverMaxiter(counter, maxiter) == counter > maxiter

\* lines 598-623: entry of MCH.solve up to the loop: the initial sample and
\* its row of errors.  normOk and allOk tell whether the row would pass the
\* two tolerance tests (they are not applied to it)
MCHsolve(maxiter, disp, full_output, normOk, allOk) ==
    /\ mch = MCHidle
    /\ mch' = [pc |-> "loop",
               maxiter |-> maxiter,
               disp |-> disp,
               full_output |-> full_output,
               counter |-> 0,
               keepLoop |-> TRUE,
               errflag |-> -1,
               errors |-> << [normOk |-> normOk, allOk |-> allOk] >>,
               learned |-> 0,
               samplings |-> 1,
               out |-> IF disp = "detailed" THEN 1 ELSE 0]
    /\ UNCHANGED <<dataVars, solved, deltaSdict, deltaJdict, solveVars,
                   callVars, subVars, rmf, brIn, brOut>>

\* lines 625-653: one iteration of the while loop: learn, sample, count,
\* append the row of errors, test for exit; the return follows the exit
MCHiterate(normOk, allOk) ==
    /\ mch.pc = "loop"
    /\ mch.keepLoop
    /\ LET row == [normOk |-> normOk, allOk |-> allOk]
           counter == mch.counter + 1
           solvedNow == WithinTolerance(row)
           over == ~solvedNow /\ OverMaxiter(counter, mch.maxiter)
       IN  mch' = [mch EXCEPT
                     !.learned = @ + 1,
                     !.samplings = @ + 1,
                     !.counter = counter,
                     !.errors = Append(@, row),
                     !.out = @ + IterationLines(mch.disp)
                               + (IF solvedNow \/ over THEN 1 ELSE 0),
                     !.errflag = IF solvedNow THEN 0
                                 ELSE IF over THEN 1 ELSE @,
                     !.keepLoop = ~(solvedNow \/ over),
                     !.pc = IF solvedNow \/ over THEN "returned" ELSE @]
    /\ UNCHANGED <<dataVars, solved, deltaSdict, deltaJdict, solveVars,
                   callVars, subVars, rmf, brIn, brOut>>

NextMCH ==
    \/ \E maxiter \in 0..MaxIter, disp \in Disps, full_output \in BOOLEAN,
          normOk \in BOOLEAN, allOk \in BOOLEAN :
          MCHsolve(maxiter, disp, full_output, normOk, allOk)
    \/ \E normOk \in BOOLEAN, allOk \in BOOLEAN : MCHiterate(normOk, allOk)

\* every iteration that is started is completed: learn_parameters_mch and
\* generate_samples return
SpecMCH ==
    /\ Init
    /\ [][NextMCH]_vars
    /\ WF_vars(\E normOk \in BOOLEAN, allOk \in BOOLEAN :
                  MCHiterate(normOk, allOk))

\* ==================================================================== claims
\* sum of the combinations f[a], a in A
RECURSIVE LinSumOver(_, _)
LinSumOver(A, f) ==
    IF A = {} THEN LinZero
    ELSE LET a == CHOOSE x \in A : TRUE
         IN  LinAdd(f[a], LinSumOver(A \ {a}, f))

\* the identities of the non-empty subsets of the cluster with identity B
SubIDs(B) == { SortedOf(C) : C \in (SUBSET ToSet(B)) \ {{}} }

RefOf(B, indRef) == IF indRef THEN Sindependent(B) ELSE SmeanField(B)

\* the first deltaS call of the behaviour (empty dictionaries) has returned
FirstCallReturned == ncalls = 1 /\ last # NoCall /\ ~last.err

\* C1: inclusion-exclusion round trip.  After deltaS(B) has returned from a
\* call tree started with empty dictionaries, for B and for every cluster
\* memoized on the way, the full entropy S(B) is the reference entropy of B
\* plus the sum of the memoized deltaS(C) over all non-empty subsets C of B,
\* B included, every subset having exactly one entry; the same for the
\* interaction matrix and deltaJ.
C1_RoundTrip ==
    FirstCallReturned =>
        /\ last.cID \in DOMAIN deltaSdict
        /\ \A B \in DOMAIN deltaSdict :
              /\ SubIDs(B) \subseteq DOMAIN deltaSdict
              /\ SubIDs(B) \subseteq DOMAIN deltaJdict
              /\ S(B, FALSE).ent =
                    LinAdd(RefOf(B, last.indRef).ent,
                           LinSumOver(SubIDs(B), deltaSdict))
              /\ S(B, FALSE).J =
                    LinAdd(RefOf(B, last.indRef).J,
                           LinSumOver(SubIDs(B), deltaJdict))

\* a first call on a cluster of three indices under the mean-field reference
C1_Witness ==
    /\ FirstCallReturned
    /\ Len(last.cID) = 3
    /\ last.mfRef
    /\ Cardinality(DOMAIN deltaSdict) = 7

\* C2: memoization idempotence.  A call of deltaS (valid reference flags) on
\* an identity that is in the memo returns the stored pair, invokes neither
\* S nor the reference, and leaves both dictionaries as they were.
C2_MemoHit ==
    [][ ( /\ ncalls' = ncalls + 1
          /\ ~BadFlags(last'.indRef, last'.mfRef)
          /\ last'.cID \in DOMAIN deltaSdict )
        => ( /\ ~last'.err
             /\ last'.dS = deltaSdict[last'.cID]
             /\ last'.dJ = deltaJdict[last'.cID]
             /\ last'.nS = 0
             /\ last'.nRef = 0
             /\ last'.log = <<>>
             /\ deltaSdict' = deltaSdict
             /\ deltaJdict' = deltaJdict ) ]_vars

\* a second call that found its identity, a cluster of two or more indices,
\* in the memo
C2_Witness ==
    /\ ncalls = 2
    /\ last.hit
    /\ ~last.err
    /\ Len(last.cID) >= 2
    /\ last.nS = 0

\* the clusters of generation g
Generation(g) == { clusters[g][i] : i \in DOMAIN clusters[g] }

\* the clusters of all generations
Retained == UNION { Generation(g) : g \in DOMAIN clusters }

\* C3: threshold retention.  A candidate union whose merge test succeeded
\* (deltaS was evaluated for it, at size k+1) is in generation k+1 if and only
\* if the absolute value of its contribution is strictly greater than the
\* threshold; it is in no other generation; the two clusters it joins are
\* members of generation k; and every member of a generation of size >= 2 is
\* such a candidate.  So a candidate with abs(deltaS) <= threshold is in no
\* generation and seeds nothing.
C3_ThresholdRetention ==
    /\ \A e \in evaluated :
          /\ e.k \in DOMAIN clusters
          /\ (e.c \in Generation(e.k)) <=> (Abs(e.dS) > threshold)
          /\ \A g \in DOMAIN clusters : g # e.k => e.c \notin Generation(g)
          /\ e.g1 \in Generation(e.k - 1)
          /\ e.g2 \in Generation(e.k - 1)
    /\ \A g \in DOMAIN clusters : \A c \in Generation(g) :
          g >= 2 => \E e \in evaluated : e.c = c /\ e.k = g

\* a finished run in which one candidate with abs(deltaS) equal to the
\* threshold was dropped and a cluster of three indices was retained
C3_Witness ==
    /\ pc = "done"
    /\ \E e \in evaluated :
          Abs(e.dS) = threshold /\ e.c \notin Retained
    /\ \E e \in evaluated :
          e.k = 3 /\ Abs(e.dS) > threshold /\ e.c \in Generation(3)

\* C4: termination of the growth loop.  For every N >= 1 and every threshold
\* the while loop cannot run for ever: each iteration (one evaluation of the
\* finite double loop) goes on to the next generation and counts as one
\* transition, and there are never more than N of them.  The loop iterates
\* only while the generation just built is non-empty and goes to the assembly
\* exactly when it is empty, and a cluster of generation g has g <= N indices.
C4_Termination ==
    /\ [][ (pc = "loop" /\ pc' = "loop") =>
              /\ clusters[size] # <<>>
              /\ size' = size + 1
              /\ iters' = iters + 1 ]_vars
    /\ [][ (pc = "loop" /\ pc' \in {"done", "raisedKey"}) =>
              clusters[size] = <<>> ]_vars
    /\ [](iters <= N)
    /\ []((pc = "loop") => size = iters + 1)
    /\ [](\A g \in DOMAIN clusters : \A c \in Generation(g) :
              Len(c) = g /\ g <= N)
    /\ []((pc \in {"loop", "done", "raisedKey"}) =>
              \A g \in DOMAIN clusters : g < size => clusters[g] # <<>>)
    /\ []((pc \in {"done", "raisedKey"}) => clusters[size] = <<>>)

\* a run with a threshold <= 0 that made N transitions on the largest N
C4_Witness ==
    /\ pc = "done"
    /\ N = MaxN
    /\ threshold <= 0
    /\ iters = N

\* C5: assembly.  The returned entropy and matrix are the reference of the
\* full index set plus the memoized contribution of every cluster that is in
\* some generation, the single indices included, each once (no cluster is
\* listed twice); what deltaS memoized for other clusters is not added.
C5_Assembly ==
    (pc = "done") =>
        LET ref == RefOf(Range(N), independentRef)
        IN  /\ ~HasRepeat(Flatten(clusters))
            /\ Generation(1) = { <<i>> : i \in 0..(N - 1) }
            /\ Retained \subseteq DOMAIN deltaSdict
            /\ Retained \subseteq DOMAIN deltaJdict
            /\ ent = LinAdd(ref.ent, LinSumOver(Retained, deltaSdict))
            /\ J = LinAdd(ref.J, LinSumOver(Retained, deltaJdict))

\* a finished run with a retained cluster of two indices and an evaluated
\* cluster, of non-zero contribution, that is in no generation
C5_Witness ==
    /\ pc = "done"
    /\ Generation(2) # {}
    /\ \E e \in evaluated :
          e.c \notin Retained /\ deltaSdict[e.c] # LinZero

\* C6: monotonicity in the threshold.  For two runs of solve on the same
\* data with the same reference flags and thresholds T1 < T2, every cluster
\* of generation g of the run with T2 is in generation g of the run with T1.
C6_Monotone ==
    \A h \in hist :
        ( /\ h.T < threshold
          /\ h.indRef = independentRef
          /\ h.mfRef = meanFieldRef )
        => \A g \in DOMAIN clusters : \A c \in Generation(g) :
              g \in DOMAIN h.clusters /\ InList(c, h.clusters[g])

\* two finished runs, the one with the larger threshold having retained a
\* cluster of two indices and dropped one the other run retained
C6_Witness ==
    /\ pc = "done"
    /\ Generation(2) # {}
    /\ \E h \in hist :
          /\ h.pc = "done"
          /\ h.T < threshold
          /\ \E g \in DOMAIN h.clusters : \E i \in DOMAIN h.clusters[g] :
                h.clusters[g][i] \notin Retained

\* C7 (as stated): a call of solve with both reference flags true, or both
\* false, raises at its entry, before the co-occurrence matrix is built, any
\* deltaS evaluation, any memo write and any assembly.  The code builds the
\* matrix first, tests only for both flags true, and with both false goes
\* into the growth loop.
C7_AsStated ==
    (pc \notin {"idle", "raisedType"}
        /\ BadFlags(independentRef, meanFieldRef)) =>
        /\ pc = "raisedFlags"
        /\ ~coocBuilt
        /\ evaluated = {}
        /\ deltaSdict = Empty
        /\ deltaJdict = Empty

KSubsets(A, k) == { B \in SUBSET A : Cardinality(B) = k }

RECURSIVE Binomial(_, _)
Binomial(n, k) ==
    IF k < 0 \/ k > n THEN 0
    ELSE IF k = 0 \/ k = n THEN 1
    ELSE Binomial(n - 1, k - 1) + Binomial(n - 1, k)

SubsetsReturned == subOut # NoCall /\ ~subOut.err

\* the list val holds exactly the k-element subsets of the list set, once each
ExactlyKSubsets(val, set, k) ==
    /\ \A i \in DOMAIN val : Len(val[i]) = k /\ ~HasRepeat(val[i])
    /\ { ToSet(val[i]) : i \in DOMAIN val } = KSubsets(ToSet(set), k)
    /\ \A i, j \in DOMAIN val : i # j => ToSet(val[i]) # ToSet(val[j])
    /\ Len(val) = Binomial(Len(set), k)

\* C9 (as stated): subsets(S,k) on a duplicate-free list S returns exactly
\* the k-element subsets of S, each once, C(|S|,k) of them, when
\* 0 < k <= |S|, and the empty list for every other k, the empty S included.
\* The code returns [[]] for S = [] and k = 0.
C9_AsStated ==
    (subOut # NoCall /\ ~HasRepeat(subIn[1])) =>
        /\ ~subOut.err
        /\ (0 < subIn[2] /\ subIn[2] <= Len(subIn[1]))
              => ExactlyKSubsets(subOut.val, subIn[1], subIn[2])
        /\ ~(0 < subIn[2] /\ subIn[2] <= Len(subIn[1]))
              => subOut.val = <<>>

\* C10: subsets raises for every list with a repeated index, whatever the
\* requested size, and returns no result.
C10_RepeatRejected ==
    (subOut # NoCall /\ HasRepeat(subIn[1])) =>
        (subOut.err /\ subOut.val = <<>>)

\* a call on a list with a repeated index whose size equals the list length
C10_Witness ==
    /\ subOut # NoCall
    /\ HasRepeat(subIn[1])
    /\ subIn[2] = Len(subIn[1])
    /\ subOut.err

\* C11: reference-mode exclusivity of deltaS.  A call of deltaS with both
\* reference flags true, or both false, raises for every cluster, the empty
\* one and one whose identity is memoized included, before S or a reference
\* is invoked, and leaves both dictionaries as they were.
C11_FlagsRejected ==
    [][ ( /\ ncalls' = ncalls + 1
          /\ last'.indRef = last'.mfRef )
        => ( /\ last'.err
             /\ last'.nS = 0
             /\ last'.nRef = 0
             /\ last'.log = <<>>
             /\ deltaSdict' = deltaSdict
             /\ deltaJdict' = deltaJdict ) ]_vars

\* a second call with both flags false on an identity the first call stored
C11_Witness ==
    /\ ncalls = 2
    /\ last.hit
    /\ ~last.indRef
    /\ ~last.mfRef
    /\ last.err
    /\ deltaSdict # Empty

\* C12: deltaS on the empty cluster raises and writes no entry: the empty
\* identity is never a key of either dictionary, and the call leaves both
\* dictionaries as they were.
C12_EmptyCluster ==
    /\ [][ (ncalls' = ncalls + 1 /\ last'.cID = <<>>)
           => ( /\ last'.err
                /\ last'.log = <<>>
                /\ deltaSdict' = deltaSdict
                /\ deltaJdict' = deltaJdict ) ]_vars
    /\ [](<<>> \notin DOMAIN deltaSdict /\ <<>> \notin DOMAIN deltaJdict)

\* a call on the empty cluster with one reference flag, rejected by S
C12_Witness ==
    /\ last # NoCall
    /\ last.cID = <<>>
    /\ last.indRef # last.mfRef
    /\ last.nS = 1
    /\ last.err

\* C13 (as stated): a deltaS call on a co-occurrence matrix that is not
\* square or not symmetric raises and memoizes nothing.  The code has no such
\* test: a call on a single index with one reference flag returns a value and
\* stores it, Sindependent having symmetrized the block on the way.
C13_AsStated ==
    (coocShape # "symmetric" /\ last # NoCall) =>
        /\ last.err
        /\ deltaSdict = Empty
        /\ deltaJdict = Empty

\* C14 (as stated): a solve call that configures a maximum cluster size
\* returns, without raising, the result of the generations up to the cap and
\* builds none beyond it.  solve has no such parameter: the call raises
\* TypeError, and the growth loop has no test on the size, only on the
\* generation being empty.
C14_AsStated ==
    (maxClusterSize > 0 /\ pc # "idle") =>
        /\ pc \in {"loop", "done"}
        /\ \A g \in DOMAIN clusters :
              g > maxClusterSize => clusters[g] = <<>>

C17_MemoScoped ==
    /\ [][ (pc # "loop" /\ pc' \in {"loop", "raisedFlags"})
           => (deltaSdict' = Empty /\ deltaJdict' = Empty) ]_vars
    /\ [](LET written == UNION { SubIDs(e.c) : e \in evaluated }
          IN  DOMAIN deltaSdict = written /\ DOMAIN deltaJdict = written)

\* a second call has finished with no cluster of three indices in its memo,
\* after a first call that retained, and so memoized, one
C17_Witness ==
    /\ pc = "done"
    /\ deltaSdict # Empty
    /\ \A k \in DOMAIN deltaSdict : Len(k) <= 2
    /\ \E h \in hist : h.pc = "done" /\ Len(h.clusters) >= 3
                        /\ h.clusters[3] # <<>>

\* C18: verbose and veryVerbose have no behavioural effect.  Of two calls of
\* solve on the same data with the same threshold and reference flags that
\* differ in verbose and veryVerbose, the second has at every moment done
\* nothing the first did not, and once it has ended it has evaluated the
\* same candidates with the same values, has the same generations and memo
\* contents and returns the same entropy and matrix, or raises the same way.
C18_VerbosityInert ==
    \A h \in hist :
        ( /\ h.T = threshold
          /\ h.indRef = independentRef
          /\ h.mfRef = meanFieldRef
          /\ <<h.verbose, h.veryVerbose>> # <<verbose, veryVerbose>> )
        => /\ evaluated \subseteq h.evaluated
           /\ DOMAIN deltaSdict \subseteq DOMAIN h.Sd
           /\ (pc \in Finished) =>
                 /\ pc = h.pc
                 /\ evaluated = h.evaluated
                 /\ clusters = h.clusters
                 /\ deltaSdict = h.Sd
                 /\ deltaJdict = h.Jd
                 /\ ent = h.ent
                 /\ J = h.J

\* a quiet call with veryVerbose set has returned after a default call that
\* retained a cluster of two indices, the two having printed differently
C18_Witness ==
    /\ pc = "done"
    /\ ~verbose
    /\ veryVerbose
    /\ \E h \in hist :
          /\ h.pc = "done"
          /\ h.verbose
          /\ ~h.veryVerbose
          /\ h.clusters[2] # <<>>
          /\ h.printed > 0
          /\ printed > h.printed

\* the call asked for a residual weighting or a prior that is not supported
Unsupported ==
    \/ rmf.minimizeCovariance
    \/ ~rmf.minimizeIndependent
    \/ rmf.priorLmbda # 0

\* C19 (as stated): RegularizedMeanField.solve raises, before any sampling or
\* optimisation, whenever minimizeCovariance is true (whatever
\* minimizeIndependent), whenever both flags are false and whenever
\* priorLmbda is non-zero, and never falls back to another mode.  With
\* minimizeCovariance and minimizeIndependent both true the code takes the
\* independent branch and goes into the optimisation.
C19_AsStated ==
    (rmf.pc # "idle" /\ Unsupported) =>
        /\ rmf.pc \in {"raisedPrior", "raisedCovariance", "raisedCorrelated"}
        /\ ~rmf.coocStdevs
        /\ rmf.evals = 0
        /\ rmf.samplings = 0

\* the non-empty strict subsets of the cluster with identity B
StrictSubIDs(B) == SubIDs(B) \ {B}

\* C20: subset-before-superset ordering.  When a deltaS call tree writes the
\* entry of a cluster, every non-empty strict subset of the cluster has its
\* entry already, from this call tree or from an earlier one, and no entry is
\* written twice; so the key set of the memo is downward-closed in every
\* state.
C20_SubsetsFirst ==
    /\ [][ (ncalls' = ncalls + 1) =>
              \A i \in DOMAIN last'.log :
                 /\ StrictSubIDs(last'.log[i]) \subseteq
                       (DOMAIN deltaSdict
                           \cup { last'.log[j] : j \in 1..(i - 1) })
                 /\ last'.log[i] \notin
                       (DOMAIN deltaSdict
                           \cup { last'.log[j] : j \in 1..(i - 1) }) ]_vars
    /\ [](\A k \in DOMAIN deltaSdict :
             /\ SubIDs(k) \subseteq DOMAIN deltaSdict
             /\ SubIDs(k) \subseteq DOMAIN deltaJdict)

\* a call on three indices that found one pair memoized and wrote the other
\* entries, the cluster itself last
C20_Witness ==
    /\ ncalls = 2
    /\ ~last.err
    /\ Len(last.cID) = 3
    /\ Len(last.log) = 4
    /\ last.log[4] = last.cID
    /\ Cardinality(DOMAIN deltaSdict) = 7

\* no element occurs twice in the list l
NoRepeat(l) == \A i, j \in DOMAIN l : l[i] = l[j] => i = j

\* C21: memo entries are write-once.  During a solve run no identity is
\* stored twice, S is invoked at most once per identity, the memo holds
\* exactly the identities stored, and no step of the run (a loop iteration
\* with its deltaS calls, or the assembly) changes or removes an entry the
\* memo has.
C21_WriteOnce ==
    /\ [](/\ NoRepeat(stored)
          /\ NoRepeat(invoked)
          /\ ToSet(stored) = DOMAIN deltaSdict
          /\ ToSet(stored) = DOMAIN deltaJdict)
    /\ [][ \A k \in DOMAIN deltaSdict :
              /\ k \in DOMAIN deltaSdict'
              /\ k \in DOMAIN deltaJdict'
              /\ deltaSdict'[k] = deltaSdict[k]
              /\ deltaJdict'[k] = deltaJdict[k] ]_vars

\* a finished run on three variables whose second and third loop iterations
\* found entries in the memo and added to it: all seven identities stored
C21_Witness ==
    /\ pc = "done"
    /\ iters >= 2
    /\ Len(stored) = 7
    /\ Len(invoked) = 7
    /\ Cardinality(DOMAIN deltaSdict) = 7

\* the solve call has built its first generation
Growing == pc \in {"loop", "done", "raisedDeltaS", "raisedKey"}

\* cluster c of generation k joins two different clusters of generation k-1
\* that have k-2 indices in common
Joins(c, k) ==
    \E i, j \in DOMAIN clusters[k - 1] :
       /\ i # j
       /\ clusters[k - 1][i] # clusters[k - 1][j]
       /\ ToSet(c) = ToSet(clusters[k - 1][i]) \cup ToSet(clusters[k - 1][j])
       /\ Cardinality(ToSet(clusters[k - 1][i])
                         \cap ToSet(clusters[k - 1][j])) = k - 2

\* C22: generation-map invariant.  Generation 1 is the list of the
\* singletons of the indices 0..N-1; every cluster of a generation k >= 2 is
\* a sorted list of k distinct indices and joins two different clusters of
\* generation k-1 that share k-2 indices; and every union solve has given to
\* deltaS joins two clusters of one generation that pass this test.
C22_GenerationMap ==
    Growing =>
       /\ clusters[1] = [i \in 1..N |-> <<i - 1>>]
       /\ \A k \in DOMAIN clusters : \A n \in DOMAIN clusters[k] :
             k >= 2 =>
                LET c == clusters[k][n]
                IN  /\ Len(c) = k
                    /\ Cardinality(ToSet(c)) = k
                    /\ c = SortedOf(ToSet(c))
                    /\ Joins(c, k)
       /\ \A e \in evaluated :
             /\ e.k - 1 \in DOMAIN clusters
             /\ InList(e.g1, clusters[e.k - 1])
             /\ InList(e.g2, clusters[e.k - 1])
             /\ Cardinality(ToSet(e.g1) \cap ToSet(e.g2)) = e.k - 2
             /\ e.c = SortedOf(ToSet(e.g1) \cup ToSet(e.g2))
             /\ Len(e.c) = e.k

\* the loop has ended with two disjoint pairs in generation 2: their union
\* fails the merge test and generation 3 is empty
C22_Witness ==
    /\ pc = "done"
    /\ Len(clusters) = 3
    /\ Len(clusters[2]) = 2
    /\ ToSet(clusters[2][1]) \cap ToSet(clusters[2][2]) = {}
    /\ clusters[3] = <<>>

\* C23: candidate deduplication.  No generation lists two clusters with the
\* same index set, whatever the number of pairs of the previous generation
\* that produce the same union.
C23_NoDuplicates ==
    \A k \in DOMAIN clusters : \A i, j \in DOMAIN clusters[k] :
       ToSet(clusters[k][i]) = ToSet(clusters[k][j]) => i = j

\* a retained cluster of three indices that three pairs of generation 2
\* produced
C23_Witness ==
    /\ pc = "done"
    /\ Len(clusters) >= 3
    /\ \E n \in DOMAIN clusters[3] :
          Cardinality({ e \in evaluated : e.c = clusters[3][n] }) = 3

\* C24: canonical cluster identity.  A deltaS call (valid reference flags)
\* on any ordering of an index set that has an entry in the memo is a memo
\* hit: it returns the stored pair and stores nothing; and the memo never
\* holds two keys with the same index set.
C24_CanonicalIdentity ==
    /\ [][ ( /\ ncalls' = ncalls + 1
             /\ ~BadFlags(last'.indRef, last'.mfRef)
             /\ \E k \in DOMAIN deltaSdict : ToSet(k) = ToSet(last'.cID) )
           => ( /\ last'.hit
                /\ ~last'.err
                /\ last'.dS = deltaSdict[SortedOf(ToSet(last'.cID))]
                /\ last'.dJ = deltaJdict[SortedOf(ToSet(last'.cID))]
                /\ last'.log = <<>>
                /\ deltaSdict' = deltaSdict
                /\ deltaJdict' = deltaJdict ) ]_vars
    /\ [](\A k1, k2 \in DOMAIN deltaSdict :
             ToSet(k1) = ToSet(k2) => k1 = k2)

\* a second call, on an ordering of three indices that is not the sorted
\* one, that found the entry an earlier call had stored
C24_Witness ==
    /\ ncalls = 2
    /\ last.hit
    /\ ~last.err
    /\ ~last.sorted
    /\ Len(last.cID) = 3
    /\ last.nS = 0

\* C25 (as stated): the pair a deltaS call returns is the one computed under
\* the reference mode of the call, whatever the dictionaries it is given
\* hold: it equals what the same call returns on empty dictionaries.
C25_AsStated ==
    [][ (ncalls' = ncalls + 1 /\ ~last'.err) =>
           LET fresh == deltaS(last'.cID, NewSt(Empty, Empty), last'.mfRef,
                               last'.indRef)
           IN  /\ last'.dS = fresh.dS
               /\ last'.dJ = fresh.dJ ]_vars

\* C26 (as stated): when deltaS computes the full entropy of a cluster, S
\* takes a closed-form branch for one and for two indices and the numerical
\* solver for three or more.
C26_AsStated ==
    last # NoCall =>
       \A b \in last.branches :
          /\ b[1] = 1 => b[2] = "closed1"
          /\ b[1] = 2 => b[2] = "closed2"
          /\ b[1] >= 3 => b[2] = "numeric"

\* the assembly loop of the current solve call has run
Assembled == pc \in {"done", "raisedKey"}

\* C27 (as stated): memo coverage at assembly.  When the growth loop of a
\* solve call under the independent reference has halted, every cluster of
\* every generation, the singletons included, has an entry in both
\* dictionaries, and the assembly ends without a missing key.
C27_AsStated ==
    (Assembled /\ independentRef /\ ~meanFieldRef) =>
       /\ pc = "done"
       /\ \A c \in Retained :
             clusterID(c) \in DOMAIN deltaSdict \cap DOMAIN deltaJdict

\* C28: the two dictionaries stay aligned.  A deltaS call that starts with
\* the same keys in deltaSdict and deltaJdict ends with the same keys in
\* both, whether it returns or raises; and a call that finds its identity in
\* deltaSdict finds it in deltaJdict and returns that entry.
C28_Aligned ==
    [][ ( /\ ncalls' = ncalls + 1
          /\ DOMAIN deltaSdict = DOMAIN deltaJdict )
        => ( /\ DOMAIN deltaSdict' = DOMAIN deltaJdict'
             /\ ( last'.hit /\ ~BadFlags(last'.indRef, last'.mfRef) )
                   => ( /\ ~last'.err
                        /\ last'.dJ = deltaJdict[last'.cID] ) ) ]_vars

\* a second call that found some sub-clusters in the dictionaries and added
\* entries of its own to both
C28_Witness ==
    /\ ncalls = 2
    /\ ~last.err
    /\ ~last.hit
    /\ Len(last.log) >= 2
    /\ Len(last.log) < Cardinality(DOMAIN deltaSdict)
    /\ DOMAIN deltaSdict = DOMAIN deltaJdict

\* the index of value v in the strictly increasing list x
IndexOf(x, v) == CHOOSE i \in DOMAIN x : x[i] = v

\* the least value of the non-empty list f is at its first or last index
MinAtBoundary(f) ==
    \/ \A j \in DOMAIN f : f[1] <= f[j]
    \/ \A j \in DOMAIN f : f[Len(f)] <= f[j]

\* C29 (as stated): on a strictly increasing xList, bracket1d returns
\* (a,b,c) with a < b < c, f(b) < f(a) and f(b) < f(c), whatever the
\* funcList, repeated minimum values included, and raises whenever the
\* minimum of a non-empty funcList is at the first or last index.
C29_AsStated ==
    (brOut # NoCall /\ brIn[2] # <<>>) =>
       LET x == brIn[1]
           f == brIn[2]
       IN  /\ ~brOut.err =>
                LET a == brOut.val[1]
                    b == brOut.val[2]
                    c == brOut.val[3]
                IN  /\ a < b
                    /\ b < c
                    /\ f[IndexOf(x, b)] < f[IndexOf(x, a)]
                    /\ f[IndexOf(x, b)] < f[IndexOf(x, c)]
           /\ MinAtBoundary(f) => brOut.err

\* C30: the iteration loop of MCH.solve.  For every maxiter >= 0 the loop
\* ends, after at least 1 and at most maxiter+1 iterations, each of one
\* learning step followed by one sampling; the call ends with errflag 0
\* exactly when both tolerance tests pass on the latest row of errors, and
\* with errflag 1 exactly when they fail and the counter exceeds maxiter;
\* errors has one row for the initial sample and one per iteration.
C30_IterationLoop ==
    /\ [](mch # MCHidle =>
            /\ Len(mch.errors) = mch.counter + 1
            /\ mch.learned = mch.counter
            /\ mch.samplings = mch.counter + 1
            /\ mch.counter <= mch.maxiter + 1
            /\ mch.pc = "loop" =>
                  /\ mch.counter <= mch.maxiter
                  /\ mch.counter >= 1 =>
                        ~WithinTolerance(mch.errors[Len(mch.errors)])
            /\ mch.pc = "returned" =>
                  /\ mch.counter >= 1
                  /\ mch.errflag \in {0, 1}
                  /\ mch.errflag = 0 <=>
                        WithinTolerance(mch.errors[Len(mch.errors)])
                  /\ mch.errflag = 1 <=>
                        /\ ~WithinTolerance(mch.errors[Len(mch.errors)])
                        /\ mch.counter > mch.maxiter)
    /\ (mch # MCHidle) ~> (mch.pc = "returned")

\* a call with maxiter = 2 that ended over maxiter after three iterations
\* of which none met the tolerances
C30_Witness ==
    /\ mch # MCHidle
    /\ mch.pc = "returned"
    /\ mch.maxiter = 2
    /\ mch.counter = 3
    /\ mch.errflag = 1
    /\ Len(mch.errors) = 4

====
